---- MODULE Spec2Model ----
(***************************************************************************)
(* Model of the ordering site (site_app): quantity validation, order       *)
(* pricing, delivery-date computation, order id generation and the         *)
(* shop -> confirmation -> summary flow over the session, the catalog and  *)
(* the order store.                                                        *)
(*                                                                         *)
(* Conventions.                                                            *)
(*  - A Python str is a sequence of one-character strings.                 *)
(*  - A date is its proleptic Gregorian ordinal, as datetime.date holds    *)
(*    it (1 = 1 January of year 1); the fields year, month, day and        *)
(*    weekday() are computed from the ordinal as the datetime module does. *)
(*  - A number is [type, m, e]: its Python type, "float" or "Decimal", and  *)
(*    its value m / 10^e as an exact decimal.  Binary rounding error of    *)
(*    float arithmetic is not modelled.                                    *)
(*  - A dict is [keys, at]: its keys in insertion order, and the mapping.  *)
(*  - A call that raises returns a record whose status names the           *)
(*    exception; status "ok" is a normal return.                           *)
(***************************************************************************)
EXTENDS Integers, Sequences, FiniteSets, TLC

VARIABLES
    \* ---- shared by the specifications
    current_time,     \* timezone.now(): [date, hour, minute]
    items,            \* the Item table: item id -> row
    orders,           \* the Order table: order id -> row
    \* ---- set_delivery_date / find_next_work_day, run step by step
    delivery_today,   \* the parameter of set_delivery_date
    dpc,              \* position in set_delivery_date
    date,             \* loop variable of find_next_work_day
    work_day,         \* loop flag of find_next_work_day
    order_delivery,   \* what set_delivery_date returns (<<dd, mm, yyyy>>)
    \* ---- prepare_raw_order_data, one call
    data,             \* the submitted form: a sequence of <<key, value>>
    raw_out,          \* what the call returned: [order_data, errors]
    \* ---- prepare_order_data, one call
    order_raw,        \* the parameter: a dict, product key -> quantity
    price_out,        \* what the call returned
    \* ---- generate_id, run step by step
    candidate,        \* what randint(1, 1000000) drew
    id,               \* the loop variable
    id_is_unique,     \* the loop flag
    gpc,              \* position in generate_id
    probes,           \* passes of the loop made so far
    id_out,           \* what generate_id returns: <<id, id_str>>
    \* ---- the application: requests of the customers and of the seller
    session,          \* request.session of each customer: key -> value
    cookies,          \* the cookies of each customer: name -> value
    response,         \* the last response each customer received
    mails,            \* the calls of send_email so far: [to, id_str, sent]
    \* ---- add_new_order inside OrderConfirmationView.post, step by step
    req,              \* the confirmation request each customer has in flight
    order_list,       \* the orders OrderListView.get last rendered
    \* ---- first_day_easter, one call
    easter_year,      \* the parameter
    easter_date       \* what the call returned

dvars == <<delivery_today, dpc, date, work_day, order_delivery>>
rvars == <<data, raw_out>>
pvars == <<order_raw, price_out>>
gvars == <<candidate, id, id_is_unique, gpc, probes, id_out>>
avars == <<session, cookies, response, mails>>
ovars == <<req, order_list>>
evars == <<easter_year, easter_date>>
vars == <<current_time, items, orders, dvars, rvars, pvars, gvars, avars, ovars, evars>>

(***************************************************************************)
(* Bounds                                                                  *)
(***************************************************************************)
\* The calendar years the reference date is drawn from: FirstYear .. FirstYear + NumYears - 1
FirstYear == 2024
NumYears == 4
\* The longest submitted quantity string of SpecRaw
MaxLen == 4
\* The most orders the store of Spec holds
MaxOrders == 2

(***************************************************************************)
(* datetime.date: ordinals, fields, weekday                                *)
(***************************************************************************)
IsLeap(y) == (y % 4 = 0) /\ ((y % 100 # 0) \/ (y % 400 = 0))

DaysBeforeYear(y) ==
    (y - 1) * 365 + ((y - 1) \div 4) - ((y - 1) \div 100) + ((y - 1) \div 400)

DaysInMonth(y, m) ==
    IF m = 2 THEN (IF IsLeap(y) THEN 29 ELSE 28)
    ELSE IF m \in {4, 6, 9, 11} THEN 30 ELSE 31

\* The days of a common year that lie before each month
DaysBeforeMonthTable == <<0, 31, 59, 90, 120, 151, 181, 212, 243, 273, 304, 334>>

DaysBeforeMonth(y, m) ==
    DaysBeforeMonthTable[m] + (IF m > 2 /\ IsLeap(y) THEN 1 ELSE 0)

\* datetime(y, m, d) as an ordinal
Ymd2Ord(y, m, d) == DaysBeforeYear(y) + DaysBeforeMonth(y, m) + d

\* The year of an ordinal, as datetime finds it: whole cycles of 400, 100
\* and 4 years, then whole years; the last day of a leap cycle belongs to
\* the year before
YearOf(n) ==
    LET n400 == (n - 1) \div 146097
        r400 == (n - 1) % 146097
        n100 == r400 \div 36524
        r100 == r400 % 36524
        n4 == r100 \div 1461
        n1 == (r100 % 1461) \div 365
        year == n400 * 400 + n100 * 100 + n4 * 4 + n1 + 1
    IN  IF n1 = 4 \/ n100 = 4 THEN year - 1 ELSE year

\* The month of an ordinal, as datetime finds it: an estimate from the day
\* of the year, lowered by one when it overshoots
MonthOf(n) ==
    LET y == YearOf(n)
        k == n - DaysBeforeYear(y) - 1
        estimate == (k + 50) \div 32
    IN  IF DaysBeforeMonth(y, estimate) > k THEN estimate - 1 ELSE estimate

DayOf(n) ==
    LET y == YearOf(n)
    IN  n - DaysBeforeYear(y) - DaysBeforeMonth(y, MonthOf(n))

\* date.weekday(): Monday is 0, Sunday is 6
Weekday(n) == (n + 6) % 7

\* date.strftime("%d.%m.%Y"): the three fields of the string
Strftime(n) == <<DayOf(n), MonthOf(n), YearOf(n)>>

\* d, m, y = str_date.split('.'); datetime(int(y), int(m), int(d))
convert_str_date_to_datetime(str_date) ==
    Ymd2Ord(str_date[3], str_date[2], str_date[1])

(***************************************************************************)
(* find_next_work_day                                                      *)
(***************************************************************************)
\* first_day_easter with 23 in the place of 24
first_day_easter_Plus23(year) ==
    LET a == ((year % 19) * 19 + 23) % 30
        b == (2 * (year % 4) + 4 * (year % 7) + 6 * a + 5) % 7
    IN  Ymd2Ord(year, 3, 22) + a + b

first_day_easter(year) ==
    LET a == ((year % 19) * 19 + 24) % 30
        b == (2 * (year % 4) + 4 * (year % 7) + 6 * a + 5) % 7
    IN  Ymd2Ord(year, 3, 22) + a + b

DayMonth(n) == <<DayOf(n), MonthOf(n)>>

\* The offset of the third movable holiday from Easter Sunday
Easter61Offset == 60

holidays(year) ==
    LET easter_1 == first_day_easter(year)
        easter_2 == easter_1 + 1
        easter_61 == easter_1 + Easter61Offset
    IN  { <<1, 1>>, <<6, 1>>, <<1, 5>>, <<3, 5>>, <<15, 8>>, <<1, 11>>,
          <<11, 11>>, <<25, 12>>, <<26, 12>>,
          DayMonth(easter_1), DayMonth(easter_2), DayMonth(easter_61) }

\* The weekday numbers the loop skips
WeekendDays == {5, 6}

\* LoopBody with the holiday table left out of the test
LoopBody_NoHolidays(d, hol) ==
    LET nd == d + 1
    IN  [date |-> nd, work_day |-> ~(Weekday(nd) \in WeekendDays)]

\* One pass of the while loop: the next date, and whether it is a work day
LoopBody(d, hol) ==
    LET nd == d + 1
    IN  [date |-> nd,
         work_day |-> ~(Weekday(nd) \in WeekendDays \/ DayMonth(nd) \in hol)]

RECURSIVE WorkDayFrom(_, _)
WorkDayFrom(d, hol) ==
    LET r == LoopBody(d, hol)
    IN  IF r.work_day THEN r.date ELSE WorkDayFrom(r.date, hol)

\* The whole function: the loop run to its end
find_next_work_day(now) == WorkDayFrom(now.date, holidays(YearOf(now.date)))

(***************************************************************************)
(* set_delivery_date                                                       *)
(***************************************************************************)
max_order_hour == 15
max_order_minute == 30

\* NotToday with the limit minute itself counted as too late
NotToday_LimitExcluded(now, today_ok) ==
    \/ now.hour > max_order_hour
    \/ (now.hour = max_order_hour /\ now.minute >= max_order_minute)
    \/ ~today_ok

\* The condition of the if: true when the delivery cannot be today
NotToday(now, today_ok) ==
    \/ now.hour > max_order_hour
    \/ (now.hour = max_order_hour /\ now.minute > max_order_minute)
    \/ ~today_ok

\* The whole function, as the pricing step calls it
set_delivery_date(now, today_ok) ==
    Strftime(IF NotToday(now, today_ok) THEN find_next_work_day(now) ELSE now.date)

(***************************************************************************)
(* Numbers: [type, m, e], the value m / 10^e kept in lowest form           *)
(***************************************************************************)
RECURSIVE Pow10(_)
Pow10(e) == IF e = 0 THEN 1 ELSE 10 * Pow10(e - 1)

RECURSIVE Norm(_)
Norm(x) ==
    IF x.e > 0 /\ x.m % 10 = 0
    THEN Norm([type |-> x.type, m |-> x.m \div 10, e |-> x.e - 1])
    ELSE x

Max(a, b) == IF a >= b THEN a ELSE b

\* The product and the sum of two numbers of one type
Mul(x, y) == Norm([type |-> x.type, m |-> x.m * y.m, e |-> x.e + y.e])

Add(x, y) ==
    LET e == Max(x.e, y.e)
    IN  Norm([type |-> x.type,
              m |-> x.m * Pow10(e - x.e) + y.m * Pow10(e - y.e), e |-> e])

\* x * y and x + y of Python: a float and a Decimal do not combine, the
\* operator raises TypeError
PyMul(x, y) ==
    IF x.type # y.type THEN [status |-> "TypeError", value |-> x]
    ELSE [status |-> "ok", value |-> Mul(x, y)]

PyAdd(x, y) ==
    IF x.type # y.type THEN [status |-> "TypeError", value |-> x]
    ELSE [status |-> "ok", value |-> Add(x, y)]

\* x // 1
FloorDiv1(x) == [type |-> x.type, m |-> x.m \div Pow10(x.e), e |-> 0]

\* x % 1 == 0
IsWhole(x) == x.m % Pow10(x.e) = 0

\* float(0)
Zero == [type |-> "float", m |-> 0, e |-> 0]

\* A float and a Decimal of the given value
Float(m, e) == Norm([type |-> "float", m |-> m, e |-> e])
Dec(m, e) == Norm([type |-> "Decimal", m |-> m, e |-> e])

\* The number of hundredths nearest to x, a tie going to the even one, as
\* format(x, '.2f') rounds the value it is given
RoundCents(x) ==
    IF x.e <= 2 THEN x.m * Pow10(2 - x.e)
    ELSE LET unit == Pow10(x.e - 2)
             q == x.m \div unit
             r == x.m % unit
         IN  IF 2 * r > unit THEN q + 1
             ELSE IF 2 * r < unit THEN q
             ELSE IF q % 2 = 0 THEN q ELSE q + 1

(***************************************************************************)
(* Strings                                                                 *)
(***************************************************************************)
DigitChars == <<"0", "1", "2", "3", "4", "5", "6", "7", "8", "9">>

IsDigit(c) == \E i \in 1..10 : DigitChars[i] = c

DigitVal(c) == (CHOOSE i \in 1..10 : DigitChars[i] = c) - 1

\* str(n) for n >= 0
RECURSIVE IntToStr(_)
IntToStr(n) ==
    IF n < 10 THEN <<DigitChars[n + 1]>>
    ELSE Append(IntToStr(n \div 10), DigitChars[(n % 10) + 1])

\* int(s) for a string of digits
RECURSIVE StrToInt(_)
StrToInt(s) ==
    IF s = <<>> THEN 0
    ELSE 10 * StrToInt(SubSeq(s, 1, Len(s) - 1)) + DigitVal(s[Len(s)])

IsSpace(c) == c = " "

\* str.strip()
RECURSIVE Strip(_)
Strip(s) ==
    IF s = <<>> THEN s
    ELSE IF IsSpace(s[1]) THEN Strip(Tail(s))
    ELSE IF IsSpace(s[Len(s)]) THEN Strip(SubSeq(s, 1, Len(s) - 1))
    ELSE s

\* f'{price:.2f}'.replace('.', ',')
convert_number_to_str(price) ==
    LET c == RoundCents(price)
    IN  IntToStr(c \div 100) \o <<",">> \o
        <<DigitChars[((c % 100) \div 10) + 1], DigitChars[(c % 10) + 1]>>

\* The place of the comma in s, 0 when there is none
CommaAt(s) ==
    IF \E i \in 1..Len(s) : s[i] = ","
    THEN CHOOSE i \in 1..Len(s) : s[i] = "," /\ \A j \in 1..(i - 1) : s[j] # ","
    ELSE 0

\* float(price.replace(',', '.')), for a string the pattern accepts
convert_number_to_float(price) ==
    LET c == CommaAt(price)
    IN  IF c = 0 THEN Float(StrToInt(price), 0)
        ELSE Float(StrToInt(SubSeq(price, 1, c - 1) \o
                            SubSeq(price, c + 1, Len(price))),
                   Len(price) - c)

(***************************************************************************)
(* check_item_quantity_correctness                                         *)
(***************************************************************************)
\* re.match('^[0-9]+(,[0-9]+)?$', s), read left to right.  st is the place
\* in the pattern: "int0" before the first digit, "int" in the first digits,
\* "frac0" just after the comma, "frac" in the digits after it.
RECURSIVE MatchFrom(_, _, _)
MatchFrom(s, i, st) ==
    IF i > Len(s) THEN st \in {"int", "frac"}
    ELSE IF IsDigit(s[i])
         THEN MatchFrom(s, i + 1, IF st \in {"int0", "int"} THEN "int" ELSE "frac")
    ELSE IF s[i] = "," /\ st = "int" THEN MatchFrom(s, i + 1, "frac0")
    ELSE FALSE

\* The pattern with digits after the comma not required: '^[0-9]+(,[0-9]*)?$'
PatternMatches_EmptyFraction(s) ==
    \/ MatchFrom(s, 1, "int0")
    \/ /\ Len(s) >= 2
       /\ s[Len(s)] = ","
       /\ \A i \in 1..(Len(s) - 1) : IsDigit(s[i])

PatternMatches(s) == MatchFrom(s, 1, "int0")

check_item_quantity_correctness(quantity) ==
    LET q == Strip(quantity)
    IN  IF PatternMatches(q) THEN q ELSE <<>>

(***************************************************************************)
(* prepare_raw_order_data                                                  *)
(***************************************************************************)
ControlKeys == {"csrfmiddlewaretoken", "csrftoken", "sessionid"}

\* {} and d[k] = v for a dict
EmptyDict == [keys |-> <<>>, at |-> [k \in {} |-> 0]]

DictSet(d, k, v) ==
    [keys |-> IF k \in DOMAIN d.at THEN d.keys ELSE Append(d.keys, k),
     at |-> (k :> v) @@ d.at]

\* The for loop over the keys of data, from entry i on
RECURSIVE RawLoop(_, _, _, _)
RawLoop(d, i, order_data, errors) ==
    IF i > Len(d) THEN [order_data |-> order_data, errors |-> errors]
    ELSE LET key == d[i][1]
             val == d[i][2]
         IN  IF key \in ControlKeys \/ val = <<>>
             THEN RawLoop(d, i + 1, order_data, errors)
             ELSE LET quantity_str == check_item_quantity_correctness(val)
                  IN  IF quantity_str # <<>>
                      THEN RawLoop(d, i + 1,
                                   DictSet(order_data, key,
                                           convert_number_to_float(quantity_str)),
                                   errors)
                      ELSE RawLoop(d, i + 1, order_data, Append(errors, key))

prepare_raw_order_data(d) == RawLoop(d, 1, EmptyDict, <<>>)

(***************************************************************************)
(* prepare_order_data                                                      *)
(***************************************************************************)
PieceUnit == <<"s", "z", "t", ".">>

\* models.Item.objects.get(name_snakecase=key): the one row with that key,
\* whatever its deleted flag; an exception when there is none or several
GetItem(tbl, key) ==
    LET found == { i \in DOMAIN tbl : tbl[i].name_snakecase = key }
    IN  IF found = {} THEN [status |-> "DoesNotExist", id |-> 0]
        ELSE IF Cardinality(found) > 1
             THEN [status |-> "MultipleObjectsReturned", id |-> 0]
        ELSE [status |-> "ok", id |-> CHOOSE i \in found : TRUE]

\* line 122: the quantity is a float (line 501), the price the Decimal of
\* the price field of Item
item_sum(item, item_quantity) ==
    IF item.unit = PieceUnit
    THEN PyMul(FloorDiv1(item_quantity), item.price)
    ELSE PyMul(item_quantity, item.price)

\* lines 121, 123-132: the entry of order_items for one product, given the
\* value of item_sum
OrderLine(item, item_quantity, sum) ==
    LET item_quantity_str == convert_number_to_str(item_quantity)
    IN  [price |-> convert_number_to_str(item.price),
         name |-> item.name,
         name_snakecase |-> item.name_snakecase,
         unit |-> item.unit,
         quantity |-> IF IsWhole(item_quantity) \/ item.unit = PieceUnit
                      THEN SubSeq(item_quantity_str, 1, Len(item_quantity_str) - 3)
                      ELSE item_quantity_str,
         item_sum |-> convert_number_to_str(sum),
         delivery_days |-> item.delivery_days,
         photo_url |-> item.photo_url]

NoOrderItems == [n \in {} |-> 0]

\* What prepare_order_data gives when exception exc leaves it
Raised(exc) ==
    [status |-> exc, order_items |-> NoOrderItems, order_sum |-> Zero,
     delivery_today |-> TRUE]

\* The for loop over order_raw, from its i-th key on
RECURSIVE PriceLoop(_, _, _, _, _, _)
PriceLoop(tbl, raw, i, order_items, order_sum, today) ==
    IF i > Len(raw.keys)
    THEN [status |-> "ok", order_items |-> order_items, order_sum |-> order_sum,
          delivery_today |-> today]
    ELSE LET item_name == raw.keys[i]
             got == GetItem(tbl, item_name)
         IN  IF got.status # "ok" THEN Raised(got.status)
             ELSE LET item == tbl[got.id]
                      item_quantity == raw.at[item_name]
                      line_sum == item_sum(item, item_quantity)
                      new_sum == PyAdd(order_sum, line_sum.value)
                  IN  IF line_sum.status # "ok" THEN Raised(line_sum.status)
                      ELSE IF new_sum.status # "ok" THEN Raised(new_sum.status)
                      ELSE PriceLoop(tbl, raw, i + 1,
                                     (item.name :> OrderLine(item, item_quantity,
                                                             line_sum.value))
                                         @@ order_items,
                                     new_sum.value,
                                     IF item.delivery_days # 0 THEN FALSE ELSE today)

\* The whole function; status is "ok" or the exception that left it
prepare_order_data(tbl, raw, now) ==
    LET r == PriceLoop(tbl, raw, 1, NoOrderItems, Zero, TRUE)
    IN  [status |-> r.status, order_items |-> r.order_items,
         order_sum |-> r.order_sum,
         order_delivery |-> IF r.status = "ok"
                            THEN set_delivery_date(now, r.delivery_today)
                            ELSE <<>>]

(***************************************************************************)
(* generate_id                                                             *)
(***************************************************************************)
\* randint(1, 1000000) draws from 1 .. RandMax, both ends included
RandMax == 1000000
\* The last id that is followed by id + 1
LastBeforeWrap == 999999
\* zfill(6) and the place of the dash
IdDigits == 6
IdHalf == 3

\* NextProbe without the return to 1
NextProbe_NoWrap(i) == i + 1

\* line 537: the id tried after id i
NextProbe(i) == IF i < LastBeforeWrap THEN i + 1 ELSE 1

\* models.Order.objects.filter(id=id).first()
OrderExists(tbl, i) == i \in DOMAIN tbl

\* The while loop, run to its end
RECURSIVE ProbeFrom(_, _)
ProbeFrom(tbl, i) ==
    IF OrderExists(tbl, i) THEN ProbeFrom(tbl, NextProbe(i)) ELSE i

\* str.zfill(n)
RECURSIVE ZFill(_, _)
ZFill(str, n) == IF Len(str) >= n THEN str ELSE ZFill(<<"0">> \o str, n)

\* lines 540-541
IdStr(i) ==
    LET id_str_raw == ZFill(IntToStr(i), IdDigits)
    IN  SubSeq(id_str_raw, 1, IdHalf) \o <<"-">> \o
        SubSeq(id_str_raw, IdHalf + 1, Len(id_str_raw))

\* id_str.replace('-', '')
WithoutDash(str) == SelectSeq(str, LAMBDA c : c # "-")

\* The whole function for a drawn candidate
generate_id(tbl, cand) ==
    LET found == ProbeFrom(tbl, cand) IN <<found, IdStr(found)>>

(***************************************************************************)
(* Specification SpecDate: one call of set_delivery_date, step by step     *)
(***************************************************************************)
RefDates == (DaysBeforeYear(FirstYear) + 1) .. DaysBeforeYear(FirstYear + NumYears)

\* Times of day around the 15:30 limit
ClockTimes == { <<0, 0>>, <<10, 0>>, <<15, 29>>, <<15, 30>>, <<15, 31>>,
                <<14, 45>>, <<16, 0>>, <<23, 59>> }

\* The variables of a call that a specification does not make
IdleDate ==
    /\ delivery_today = FALSE
    /\ dpc = "idle"
    /\ date = 0
    /\ work_day = FALSE
    /\ order_delivery = <<>>

IdleRaw ==
    /\ data = <<>>
    /\ raw_out = <<>>

IdlePrice ==
    /\ order_raw = <<>>
    /\ price_out = <<>>

IdleId ==
    /\ candidate = 0
    /\ id = 0
    /\ id_is_unique = FALSE
    /\ gpc = "idle"
    /\ probes = 0
    /\ id_out = <<>>

IdleApp ==
    /\ session = <<>>
    /\ cookies = <<>>
    /\ response = <<>>
    /\ mails = <<>>

IdleOrder ==
    /\ req = <<>>
    /\ order_list = <<>>

IdleEaster ==
    /\ easter_year = 0
    /\ easter_date = 0

NoItems == <<>>
NoOrders == <<>>
NoTime == <<>>

InitDate ==
    /\ IdleOrder
    /\ IdleEaster
    /\ IdleApp
    /\ IdleRaw
    /\ IdlePrice
    /\ IdleId
    /\ items = NoItems
    /\ orders = NoOrders
    /\ current_time \in { [date |-> d, hour |-> t[1], minute |-> t[2]] :
                            d \in RefDates, t \in ClockTimes }
    /\ delivery_today \in BOOLEAN
    /\ dpc = "start"
    /\ date = 0
    /\ work_day = FALSE
    /\ order_delivery = <<>>

\* lines 153-161: the branch
SetDeliveryDate ==
    /\ dpc = "start"
    /\ IF NotToday(current_time, delivery_today)
       THEN /\ dpc' = "loop"
            /\ date' = current_time.date
            /\ work_day' = FALSE
       ELSE /\ dpc' = "return"
            /\ date' = current_time.date
            /\ work_day' = work_day
    /\ UNCHANGED <<delivery_today, order_delivery>>
    /\ UNCHANGED <<current_time, items, orders, rvars, pvars, gvars, avars, ovars, evars>>

\* lines 215-219: one pass of the loop
LoopStep ==
    /\ dpc = "loop"
    /\ ~work_day
    /\ LET r == LoopBody(date, holidays(YearOf(current_time.date)))
       IN  /\ date' = r.date
           /\ work_day' = r.work_day
    /\ UNCHANGED <<delivery_today, dpc, order_delivery>>
    /\ UNCHANGED <<current_time, items, orders, rvars, pvars, gvars, avars, ovars, evars>>

\* line 220: the loop has ended
LoopExit ==
    /\ dpc = "loop"
    /\ work_day
    /\ dpc' = "return"
    /\ UNCHANGED <<delivery_today, date, work_day, order_delivery>>
    /\ UNCHANGED <<current_time, items, orders, rvars, pvars, gvars, avars, ovars, evars>>

\* line 162
ReturnDate ==
    /\ dpc = "return"
    /\ order_delivery' = Strftime(date)
    /\ dpc' = "done"
    /\ UNCHANGED <<delivery_today, date, work_day>>
    /\ UNCHANGED <<current_time, items, orders, rvars, pvars, gvars, avars, ovars, evars>>

NextDate == SetDeliveryDate \/ LoopStep \/ LoopExit \/ ReturnDate

SpecDate == InitDate /\ [][NextDate]_vars

(***************************************************************************)
(* Specification SpecRaw: one call of prepare_raw_order_data               *)
(***************************************************************************)
Alphabet == {"0", "7", ",", " ", "a"}

\* Every string over the alphabet of length at most n
RECURSIVE StringsUpTo(_)
StringsUpTo(n) ==
    IF n = 0 THEN { <<>> }
    ELSE LET shorter == StringsUpTo(n - 1)
         IN  shorter \cup { Append(t, c) : t \in { u \in shorter : Len(u) = n - 1 },
                                           c \in Alphabet }

\* The form: the CSRF token, one field with any string, one with a few
FewValues == { <<>>, <<"1">>, <<"7", ",">>, <<" ">>, <<"0", ",", "0">> }

InitRaw ==
    /\ IdleOrder
    /\ IdleEaster
    /\ IdleApp
    /\ IdleDate
    /\ IdlePrice
    /\ IdleId
    /\ current_time = NoTime
    /\ items = NoItems
    /\ orders = NoOrders
    /\ \E v \in StringsUpTo(MaxLen), w \in FewValues, tok \in { <<>>, <<"a", "0">> } :
          data = << <<"csrfmiddlewaretoken", tok>>, <<"mleko", v>>, <<"chleb", w>> >>
    /\ raw_out = <<>>

PrepareRaw ==
    /\ data # <<>>
    /\ raw_out = <<>>
    /\ raw_out' = prepare_raw_order_data(data)
    /\ UNCHANGED data
    /\ UNCHANGED <<current_time, items, orders, dvars, pvars, gvars, avars, ovars, evars>>

NextRaw == PrepareRaw

SpecRaw == InitRaw /\ [][NextRaw]_vars

(***************************************************************************)
(* Specification SpecPrice: one call of prepare_order_data                 *)
(***************************************************************************)
Str_l == <<"l">>
Str_kg == <<"k", "g">>

\* The catalogs: three products, sold by the piece or by measure, delivered
\* the same day or later, in the shop or soft-deleted.  No catalog has the
\* key jablka.
PriceCatalogs ==
    { <<  [name |-> "Mleko", name_snakecase |-> "mleko", price |-> Dec(pm, 2),
           unit |-> um, delivery_days |-> 0, deleted |-> FALSE, photo_url |-> "m"],
          [name |-> "Chleb", name_snakecase |-> "chleb", price |-> Dec(320, 2),
           unit |-> PieceUnit, delivery_days |-> 0, deleted |-> dc, photo_url |-> "c"],
          [name |-> "Ser", name_snakecase |-> "ser", price |-> Dec(320, 2),
           unit |-> Str_kg, delivery_days |-> ds, deleted |-> FALSE, photo_url |-> "s"] >> :
        pm \in {320, 450}, um \in {Str_l, PieceUnit}, dc \in BOOLEAN, ds \in {0, 1} }

\* The quantity strings a product is ordered with; <<>> is "not ordered"
Qty_1 == <<"1">>
Qty_2_5 == <<"2", ",", "5">>
Qty_3_7 == <<"3", ",", "7">>
Qty_0_33 == <<"0", ",", "3", "3">>
Qty_3_999 == <<"3", ",", "9", "9", "9">>

PriceForms ==
    { << <<"mleko", qm>>, <<"chleb", qc>>, <<"ser", qs>>, <<"jablka", qj>> >> :
        qm \in { <<>>, Qty_1, Qty_2_5, Qty_3_7, Qty_0_33 },
        qc \in { <<>>, Qty_1, Qty_3_7, Qty_0_33, Qty_3_999 },
        qs \in { <<>>, Qty_3_7, Qty_0_33 },
        qj \in { <<>>, Qty_3_7, Qty_0_33 } }

\* Thursday 2 May 2024, around the order limit
PriceTimes ==
    { [date |-> Ymd2Ord(2024, 5, 2), hour |-> t[1], minute |-> t[2]] :
        t \in { <<14, 45>>, <<15, 29>>, <<15, 30>>, <<15, 31>>, <<16, 0>> } }

InitPrice ==
    /\ IdleOrder
    /\ IdleEaster
    /\ IdleApp
    /\ IdleDate
    /\ IdleRaw
    /\ IdleId
    /\ orders = NoOrders
    /\ current_time \in PriceTimes
    /\ items \in PriceCatalogs
    /\ order_raw \in { prepare_raw_order_data(f).order_data : f \in PriceForms }
    /\ price_out = <<>>

PrepareOrder ==
    /\ items # NoItems
    /\ price_out = <<>>
    /\ price_out' = prepare_order_data(items, order_raw, current_time)
    /\ UNCHANGED order_raw
    /\ UNCHANGED <<current_time, items, orders, dvars, rvars, gvars, avars, ovars, evars>>

NextPrice == PrepareOrder

SpecPrice == InitPrice /\ [][NextPrice]_vars

(***************************************************************************)
(* Specification SpecId: one call of generate_id, step by step             *)
(***************************************************************************)
\* The ids that stores and candidates are made of: both ends of the range
IdPool == {1, 2, 3, LastBeforeWrap - 1, LastBeforeWrap, RandMax}

\* A row of the Order table of which only the id matters here
StubOrder(i) == [id |-> i, id_str |-> IdStr(i)]

InitId ==
    /\ IdleOrder
    /\ IdleEaster
    /\ IdleApp
    /\ IdleDate
    /\ IdleRaw
    /\ IdlePrice
    /\ current_time = NoTime
    /\ items = NoItems
    /\ orders \in { [i \in S |-> StubOrder(i)] : S \in SUBSET IdPool }
    /\ candidate = 0
    /\ id = 0
    /\ id_is_unique = FALSE
    /\ gpc = "start"
    /\ probes = 0
    /\ id_out = <<>>

\* line 533-534
GenDraw ==
    /\ gpc = "start"
    /\ \E c \in IdPool :
          /\ c \in 1..RandMax
          /\ candidate' = c
          /\ id' = c
    /\ id_is_unique' = FALSE
    /\ gpc' = "loop"
    /\ UNCHANGED <<probes, id_out>>
    /\ UNCHANGED <<current_time, items, orders, dvars, rvars, pvars, avars, ovars, evars>>

\* lines 535-539: one pass of the loop
GenProbe ==
    /\ gpc = "loop"
    /\ ~id_is_unique
    /\ IF OrderExists(orders, id)
       THEN id' = NextProbe(id) /\ id_is_unique' = FALSE
       ELSE id' = id /\ id_is_unique' = TRUE
    /\ probes' = probes + 1
    /\ UNCHANGED <<candidate, gpc, id_out>>
    /\ UNCHANGED <<current_time, items, orders, dvars, rvars, pvars, avars, ovars, evars>>

\* lines 540-542
GenReturn ==
    /\ gpc = "loop"
    /\ id_is_unique
    /\ id_out' = <<id, IdStr(id)>>
    /\ gpc' = "done"
    /\ UNCHANGED <<candidate, id, id_is_unique, probes>>
    /\ UNCHANGED <<current_time, items, orders, dvars, rvars, pvars, avars, ovars, evars>>

NextId == GenDraw \/ GenProbe \/ GenReturn

SpecId == InitId /\ [][NextId]_vars

(***************************************************************************)
(* Specification SpecEaster: one call of first_day_easter                  *)
(***************************************************************************)
\* The years the function is called with
EasterYears == 2000..2099

InitEaster ==
    /\ IdleApp
    /\ IdleOrder
    /\ IdleDate
    /\ IdleRaw
    /\ IdlePrice
    /\ IdleId
    /\ current_time = NoTime
    /\ items = NoItems
    /\ orders = NoOrders
    /\ easter_year \in EasterYears
    /\ easter_date = 0

\* utils.py 193-196: the call and its result
FirstDayEaster ==
    /\ easter_date = 0
    /\ easter_date' = first_day_easter(easter_year)
    /\ UNCHANGED <<easter_year, current_time, items, orders, dvars, rvars,
                   pvars, gvars, avars, ovars>>

NextEaster == FirstDayEaster

SpecEaster == InitEaster /\ [][NextEaster]_vars

(***************************************************************************)
(* Specification Spec: the application                                     *)
(*                                                                         *)
(* Customers, each with a session and cookies, post the shop form, post    *)
(* the confirmation form and read the summary; the seller soft-deletes     *)
(* products; time passes.  Each request is served from start to end        *)
(* before the next one begins.                                             *)
(***************************************************************************)
Sessions == {"s1", "s2"}

\* json.dumps(v); json.loads gives v back for the values used here
JsonDumps(v) == [json |-> v]
JsonLoads(t) == t.json

NoKeys == [k \in {} |-> 0]

\* The catalog the run starts with
Str_abc == <<"a", "b", "c">>
Qty_0 == <<"0">>
Token == <<"t">>

ShopCatalog ==
    << [name |-> "Mleko", name_snakecase |-> "mleko", price |-> Dec(450, 2),
        unit |-> Str_l, delivery_days |-> 0, deleted |-> FALSE, photo_url |-> "m"],
       [name |-> "Chleb", name_snakecase |-> "chleb", price |-> Dec(320, 2),
        unit |-> PieceUnit, delivery_days |-> 1, deleted |-> FALSE, photo_url |-> "c"] >>

\* The item ids the seller's requests name
ItemIds == DOMAIN ShopCatalog

\* The shop form with every quantity field left empty
EmptyShopForm ==
    << <<"csrfmiddlewaretoken", Token>>, <<"mleko", <<>> >>, <<"chleb", <<>> >> >>

\* The shop forms a customer posts: the CSRF token and quantity fields
ShopForms ==
    { << <<"csrfmiddlewaretoken", Token>>, <<"mleko", Qty_2_5>>, <<"chleb", Qty_1>> >>,
      << <<"csrfmiddlewaretoken", Token>>, <<"mleko", Str_abc>>, <<"chleb", Qty_1>> >>,
      << <<"csrfmiddlewaretoken", Token>>, <<"mleko", Qty_0>>, <<"chleb", <<>> >> >>,
      EmptyShopForm,
      << <<"csrfmiddlewaretoken", Token>>, <<"ser", Qty_1>> >> }

\* The confirmation forms: payment method, e-mail address (may be empty),
\* whether 'remember-data' is ticked
ConfirmForms ==
    { [payment_method |-> "cash", email |-> "", city |-> "Banino",
       phone |-> "1", remember |-> FALSE],
      [payment_method |-> "cash", email |-> "k@x.pl", city |-> "Banino",
       phone |-> "1", remember |-> TRUE] }

SellerAddress == "yakub.yusufali@gmail.com"

\* The instants of the run: Thursday 2 May 2024 at 10:00, before the order
\* limit, and at 16:00, after it
Timeline ==
    << [date |-> Ymd2Ord(2024, 5, 2), hour |-> 10, minute |-> 0],
       [date |-> Ymd2Ord(2024, 5, 2), hour |-> 16, minute |-> 0] >>

\* A response: the view that gave it, its kind and its target or exception
Respond(view, kind, to) == [view |-> view, kind |-> kind, to |-> to]

\* The candidates randint draws in Spec
Candidates == {1, LastBeforeWrap}

Init ==
    /\ IdleOrder
    /\ IdleEaster
    /\ IdleDate
    /\ data = <<>>
    /\ raw_out = <<>>
    /\ IdlePrice
    /\ IdleId
    /\ current_time = Timeline[1]
    /\ items = ShopCatalog
    /\ orders = NoOrders
    /\ session = [s \in Sessions |-> NoKeys]
    /\ cookies = [s \in Sessions |-> NoKeys]
    /\ response = [s \in Sessions |-> Respond("", "none", "")]
    /\ mails = <<>>

Static == <<dvars, rvars, pvars, gvars, ovars, evars>>

\* The parameters of prepare_raw_order_data, utils.py 66
prepare_raw_order_data_params == <<"data">>

\* A call of a function of the given parameters with the given positional
\* arguments: the function is entered when their numbers agree, the call
\* raises TypeError when they do not
CallEnters(params, args) == Len(args) = Len(params)

\* views.py 192-194: the session keys written from what prepare_order_data
\* returned
PricedSession(priced) ==
    ("order_items" :> JsonDumps(priced.order_items)) @@
    ("order_sum" :> priced.order_sum) @@
    ("order_delivery" :> priced.order_delivery)

\* ShopView.post, views.py 184-195.  Line 185 passes the request and the
\* form to prepare_raw_order_data, whose one parameter takes the first.
ShopViewPost(s, form) ==
    LET args == <<"request", form>>
        raw == prepare_raw_order_data(args[1])
        priced == prepare_order_data(items, raw.order_data, current_time)
    IN  /\ data' = form
        /\ IF ~CallEnters(prepare_raw_order_data_params, args)
           THEN /\ response' = [response EXCEPT ![s] =
                        Respond("ShopView.post", "error", "TypeError")]
                /\ UNCHANGED <<session, cookies>>
           ELSE IF raw.errors # <<>>
           THEN /\ response' = [response EXCEPT ![s] =
                        Respond("ShopView.post", "redirect", "shop_view")]
                /\ cookies' = [cookies EXCEPT ![s] = ("order" :> JsonDumps(form)) @@ @]
                /\ UNCHANGED session
           ELSE IF priced.status # "ok"
           THEN \* an exception left prepare_order_data
                /\ response' = [response EXCEPT ![s] =
                        Respond("ShopView.post", "error", priced.status)]
                /\ UNCHANGED <<session, cookies>>
           ELSE /\ session' = [session EXCEPT ![s] = PricedSession(priced) @@ @]
                /\ response' = [response EXCEPT ![s] =
                        Respond("ShopView.post", "redirect", "order_confirmation_view")]
                /\ UNCHANGED cookies
        /\ UNCHANGED <<current_time, items, orders, mails, raw_out, dvars, pvars, gvars, ovars, evars>>

\* send_email, utils.py 244-263: the message is sent, or the transport
\* fails and the exception is caught and printed
Mail(to, id_str, sent) == [to |-> to, id_str |-> id_str, sent |-> sent]

\* OrderRow with an items text that is not the session's
OrderRow_NoLines(ids, form, sess, now) ==
    [id |-> ids[1],
     id_str |-> ids[2],
     sum |-> RoundCents(sess["order_sum"]),
     payment_method |-> form.payment_method,
     items |-> JsonDumps(NoOrderItems),
     city |-> form.city,
     phone_number |-> form.phone,
     email_address |-> form.email,
     paid |-> FALSE,
     completed |-> FALSE,
     timestamp |-> now,
     delivery_date |-> convert_str_date_to_datetime(sess["order_delivery"])]

\* The row that Order.objects.create writes, utils.py 570-585.  sum is a
\* DecimalField of two places: the hundredths nearest to order_sum;
\* timestamp is set to the instant of the insert (auto_now_add).
OrderRow(ids, form, sess, now) ==
    [id |-> ids[1],
     id_str |-> ids[2],
     sum |-> RoundCents(sess["order_sum"]),
     payment_method |-> form.payment_method,
     items |-> sess["order_items"],
     city |-> form.city,
     phone_number |-> form.phone,
     email_address |-> form.email,
     paid |-> FALSE,
     completed |-> FALSE,
     timestamp |-> now,
     delivery_date |-> convert_str_date_to_datetime(sess["order_delivery"])]

\* OrderConfirmationView.post, views.py 245-256, with add_new_order,
\* utils.py 545-597
OrderConfirmationViewPost(s, form, cand) ==
    LET ids == generate_id(orders, cand)
    IN  /\ IF "order_items" \notin DOMAIN session[s]
           THEN \* request.session['order_items'] raises KeyError
                /\ response' = [response EXCEPT ![s] =
                        Respond("OrderConfirmationView.post", "error", "KeyError")]
                /\ UNCHANGED <<orders, mails, session, cookies>>
           ELSE /\ Cardinality(DOMAIN orders) < MaxOrders
                /\ orders' = (ids[1] :> OrderRow(ids, form, session[s], current_time)) @@ orders
                /\ \E sent1, sent2 \in BOOLEAN :
                      mails' = mails \o <<Mail(SellerAddress, ids[2], sent1)>>
                                     \o (IF form.email # ""
                                         THEN <<Mail(form.email, ids[2], sent2)>>
                                         ELSE <<>>)
                /\ session' = [session EXCEPT ![s] =
                        ("user_data" :> JsonDumps(form)) @@
                        ("payment_method" :> form.payment_method) @@
                        ("id" :> ids[2]) @@ @]
                /\ cookies' = [cookies EXCEPT ![s] =
                        IF form.remember
                        THEN ("user_data" :> JsonDumps(form)) @@ @
                        ELSE [k \in DOMAIN @ \ {"user_data"} |-> @[k]]]
                /\ response' = [response EXCEPT ![s] =
                        Respond("OrderConfirmationView.post", "redirect", "order_summary")]
        /\ UNCHANGED <<current_time, items, Static>>

SummaryKeys == {"order_items", "order_sum", "user_data", "payment_method", "id"}

\* A flush that removes only the keys written by the confirmation
SessionFlush_KeepsPricedOrder(sess) ==
    [k \in DOMAIN sess \ {"user_data", "payment_method", "id"} |-> sess[k]]

\* request.session.flush(), views.py 285: the session data is deleted
SessionFlush(sess) == NoKeys

\* OrderSummaryView.get, views.py 275-287
OrderSummaryViewGet(s) ==
    /\ IF SummaryKeys \subseteq DOMAIN session[s]
       THEN /\ session' = [session EXCEPT ![s] = SessionFlush(@)]
            /\ response' = [response EXCEPT ![s] =
                    Respond("OrderSummaryView.get", "render", "order_summary")]
       ELSE /\ response' = [response EXCEPT ![s] =
                    Respond("OrderSummaryView.get", "error", "KeyError")]
            /\ UNCHANGED session
    /\ UNCHANGED <<current_time, items, orders, cookies, mails, Static>>

\* DeleteItemView.post, views.py 412-415
DeleteItemViewPost(item_id) ==
    /\ item_id \in DOMAIN items
    /\ ~items[item_id].deleted
    /\ items' = [items EXCEPT ![item_id].deleted = TRUE]
    /\ UNCHANGED <<current_time, orders, Static, avars>>

\* Time passes
Tick ==
    /\ \E i \in 1..(Len(Timeline) - 1) :
          /\ current_time = Timeline[i]
          /\ current_time' = Timeline[i + 1]
    /\ UNCHANGED <<items, orders, Static, avars>>

Next ==
    \/ \E s \in Sessions, form \in ShopForms : ShopViewPost(s, form)
    \/ \E s \in Sessions, form \in ConfirmForms, cand \in Candidates :
          OrderConfirmationViewPost(s, form, cand)
    \/ \E s \in Sessions : OrderSummaryViewGet(s)
    \/ \E i \in ItemIds : DeleteItemViewPost(i)
    \/ Tick

Spec == Init /\ [][Next]_vars

(***************************************************************************)
(* Specification SpecOrder: add_new_order and the requests around it       *)
(*                                                                         *)
(* The customers' sessions start with a priced order in them, the input    *)
(* of add_new_order.  A confirmation request runs in three steps, between  *)
(* which the requests of the other customer are served: generate_id and    *)
(* the reads of the session, the insert of the order, and the e-mails      *)
(* with the rest of OrderConfirmationView.post.  A customer sends a        *)
(* request after the response to the last one.                             *)
(***************************************************************************)
\* The order of no lines: what prepare_raw_order_data and
\* prepare_order_data make of the shop form with every field empty, at the
\* first instant
EmptyPriced ==
    prepare_order_data(ShopCatalog,
                       prepare_raw_order_data(EmptyShopForm).order_data,
                       Timeline[1])

\* An order of one line, 2,5 l of the first product, laid out as lines
\* 123-135 lay it out
OneLinePriced ==
    [status |-> "ok",
     order_items |-> (ShopCatalog[1].name :>
                        OrderLine(ShopCatalog[1], Float(25, 1), Float(1125, 2))),
     order_sum |-> Float(1125, 2),
     order_delivery |-> set_delivery_date(Timeline[1], TRUE)]

\* The session each customer starts with
StartSessions == ("s1" :> PricedSession(OneLinePriced)) @@
                 ("s2" :> PricedSession(EmptyPriced))

\* No confirmation request in flight
NoRequest == [pc |-> "none", form |-> <<>>, ids |-> <<>>, new_order |-> <<>>]

InitOrder ==
    /\ IdleDate
    /\ IdleRaw
    /\ IdlePrice
    /\ IdleId
    /\ IdleEaster
    /\ current_time = Timeline[1]
    /\ items = ShopCatalog
    /\ orders = NoOrders
    /\ session = StartSessions
    /\ cookies = [s \in Sessions |-> NoKeys]
    /\ response = [s \in Sessions |-> Respond("", "none", "")]
    /\ mails = <<>>
    /\ req = [s \in Sessions |-> NoRequest]
    /\ order_list = <<>>

\* The confirmation requests in flight
InFlight == { s \in Sessions : req[s].pc # "none" }

\* Order.objects.create: an INSERT, which the primary key refuses when the
\* id is already in the table
ObjectsCreate_Upsert(tbl, row) ==
    [status |-> "ok", table |-> (row.id :> row) @@ tbl]

ObjectsCreate(tbl, row) ==
    IF OrderExists(tbl, row.id)
    THEN [status |-> "IntegrityError", table |-> tbl]
    ELSE [status |-> "ok", table |-> (row.id :> row) @@ tbl]

\* send_email with a transport failure that leaves the function
send_email_Raises(log, to, id_str, delivered) ==
    [status |-> IF delivered THEN "ok" ELSE "SMTPException",
     log |-> Append(log, Mail(to, id_str, delivered))]

\* send_email, utils.py 223-263: one attempt; an exception of the transport
\* is caught at line 262 and printed
send_email(log, to, id_str, delivered) ==
    [status |-> "ok", log |-> Append(log, Mail(to, id_str, delivered))]

\* views.py 245-246 and utils.py 564-569: the request arrives, generate_id
\* runs and the session is read
ConfirmBegin(s, form, cand) ==
    /\ req[s].pc = "none"
    /\ IF "order_items" \notin DOMAIN session[s]
       THEN /\ response' = [response EXCEPT ![s] =
                    Respond("OrderConfirmationView.post", "error", "KeyError")]
            /\ UNCHANGED req
       ELSE /\ Cardinality(DOMAIN orders) + Cardinality(InFlight) < MaxOrders
            /\ req' = [req EXCEPT ![s] =
                    [pc |-> "create", form |-> form,
                     ids |-> generate_id(orders, cand), new_order |-> <<>>]]
            /\ UNCHANGED response
    /\ UNCHANGED <<current_time, items, orders, session, cookies, mails,
                   order_list, dvars, rvars, pvars, gvars, evars>>

\* utils.py 570-585: the insert
CreateOrder(s) ==
    LET row == OrderRow(req[s].ids, req[s].form, session[s], current_time)
        made == ObjectsCreate(orders, row)
    IN  /\ req[s].pc = "create"
        /\ orders' = made.table
        /\ IF made.status # "ok"
           THEN /\ response' = [response EXCEPT ![s] =
                        Respond("OrderConfirmationView.post", "error", made.status)]
                /\ req' = [req EXCEPT ![s] = NoRequest]
           ELSE /\ req' = [req EXCEPT ![s].pc = "send", ![s].new_order = row]
                /\ UNCHANGED response
        /\ UNCHANGED <<current_time, items, session, cookies, mails,
                       order_list, dvars, rvars, pvars, gvars, evars>>

\* utils.py 586-597 and views.py 247-256: the two e-mails, the cookie, the
\* session keys and the redirect
ConfirmEnd(s) ==
    /\ req[s].pc = "send"
    /\ \E sent1, sent2 \in BOOLEAN :
          LET form == req[s].form
              id_str == req[s].ids[2]
              to_seller == send_email(mails, SellerAddress, id_str, sent1)
              to_customer == IF form.email # ""
                             THEN send_email(to_seller.log, form.email, id_str, sent2)
                             ELSE to_seller
              raised == IF to_seller.status # "ok" THEN to_seller.status
                        ELSE to_customer.status
          IN  /\ mails' = IF to_seller.status # "ok" THEN to_seller.log
                          ELSE to_customer.log
              /\ IF raised # "ok"
                 THEN /\ response' = [response EXCEPT ![s] =
                              Respond("OrderConfirmationView.post", "error", raised)]
                      /\ UNCHANGED <<session, cookies>>
                 ELSE /\ session' = [session EXCEPT ![s] =
                              ("user_data" :> JsonDumps(form)) @@
                              ("payment_method" :> form.payment_method) @@
                              ("id" :> id_str) @@ @]
                      /\ cookies' = [cookies EXCEPT ![s] =
                              IF form.remember
                              THEN ("user_data" :> JsonDumps(form)) @@ @
                              ELSE [k \in DOMAIN @ \ {"user_data"} |-> @[k]]]
                      /\ response' = [response EXCEPT ![s] =
                              Respond("OrderConfirmationView.post", "redirect",
                                      "order_summary")]
    /\ req' = [req EXCEPT ![s] = NoRequest]
    /\ UNCHANGED <<current_time, items, orders, order_list,
                   dvars, rvars, pvars, gvars, evars>>

\* OrderSummaryView.get of a customer with no request in flight
SummaryGet(s) ==
    /\ req[s].pc = "none"
    /\ OrderSummaryViewGet(s)

NextOrder ==
    \/ \E s \in Sessions, form \in ConfirmForms, cand \in Candidates :
          ConfirmBegin(s, form, cand)
    \/ \E s \in Sessions : CreateOrder(s)
    \/ \E s \in Sessions : ConfirmEnd(s)
    \/ \E s \in Sessions : SummaryGet(s)

SpecOrder == InitOrder /\ [][NextOrder]_vars

(***************************************************************************)
(* Specifications SpecFlow and SpecSeller                                  *)
(*                                                                         *)
(* The first customer's session starts with a priced order in it.  Each    *)
(* request is served from start to end.  In SpecFlow the customers post    *)
(* the confirmation form and read the summary, and time passes.  In        *)
(* SpecSeller the first customer posts confirmations, and the seller       *)
(* edits, adds and soft-deletes products, changes photos and reads the     *)
(* order list.                                                             *)
(***************************************************************************)
\* The products the catalog may come to hold
MaxItems == 3

\* str.capitalize() and str.lower() of the words the seller types
Capitalize(w) ==
    CASE w = "mleko" -> "Mleko"
      [] w = "KOZIE" -> "Kozie"
      [] w = "ser" -> "Ser"
      [] w = "chleb" -> "Chleb"

Lower(w) ==
    CASE w = "mleko" -> "mleko"
      [] w = "KOZIE" -> "kozie"
      [] w = "ser" -> "ser"
      [] w = "chleb" -> "chleb"

\* sep.join(parts)
RECURSIVE Join(_, _)
Join(sep, parts) ==
    IF parts = <<>> THEN ""
    ELSE IF Len(parts) = 1 THEN parts[1]
    ELSE parts[1] \o sep \o Join(sep, Tail(parts))

\* utils.py 459-471 and 444-456; words is name.split()
format_and_capitalize_name(words) ==
    Join(" ", [k \in 1..Len(words) |-> Capitalize(words[k])])

convert_name_to_snakecase(words) ==
    Join("_", [k \in 1..Len(words) |-> Lower(words[k])])

\* Decimal(text.replace(',', '.')) of a price typed as digits, a comma and
\* digits
DecimalOfText(text) ==
    LET c == CommaAt(text)
    IN  Norm([type |-> "Decimal",
              m |-> StrToInt(SubSeq(text, 1, c - 1) \o SubSeq(text, c + 1, Len(text))),
              e |-> Len(text) - c])

\* The product forms of the seller: the key of the product in the item
\* list, the name as typed, the price, the unit and the delivery choice
ItemForms ==
    { [item_name |-> "mleko", name |-> <<"mleko", "KOZIE">>,
       price |-> <<"5", ",", "0", "0">>, unit |-> PieceUnit,
       delivery_date |-> "tomorrow"],
      [item_name |-> "ser", name |-> <<"ser">>,
       price |-> <<"1", "2", ",", "5">>, unit |-> Str_kg,
       delivery_date |-> "today"],
      [item_name |-> "chleb", name |-> <<"chleb">>,
       price |-> <<"3", ",", "2", "0">>, unit |-> PieceUnit,
       delivery_date |-> "tomorrow"] }

\* ShopView.get, views.py 150-155: the keys of the products on the shop
\* page, those of the rows not deleted
ListedKeys(tbl) ==
    { tbl[i].name_snakecase : i \in { j \in DOMAIN tbl : ~tbl[j].deleted } }

\* The photo urls that save_photo_and_get_url returns for the uploads
PhotoUrls == {"p"}

InitFlow ==
    /\ IdleDate
    /\ IdleRaw
    /\ IdlePrice
    /\ IdleId
    /\ IdleEaster
    /\ current_time = Timeline[1]
    /\ items = ShopCatalog
    /\ orders = NoOrders
    /\ session = [s \in Sessions |-> IF s = "s1" THEN StartSessions[s] ELSE NoKeys]
    /\ cookies = [s \in Sessions |-> NoKeys]
    /\ response = [s \in Sessions |-> Respond("", "none", "")]
    /\ mails = <<>>
    /\ req = [s \in Sessions |-> NoRequest]
    /\ order_list = <<>>

\* ItemListView.post, views.py 118-130, for a form that names one product
ItemListViewPost(form) ==
    LET got == GetItem(items, form.item_name)
    IN  /\ items' = IF got.status # "ok" THEN items
                    ELSE [items EXCEPT ![got.id] =
                            [@ EXCEPT !.name = format_and_capitalize_name(form.name),
                                      !.name_snakecase = convert_name_to_snakecase(form.name),
                                      !.price = DecimalOfText(form.price),
                                      !.unit = form.unit,
                                      !.delivery_days =
                                          IF form.delivery_date = "today" THEN 0 ELSE 1]]
        /\ UNCHANGED <<current_time, orders, Static, avars>>

\* AddItemView.post, views.py 354-366
AddItemViewPost(form, url) ==
    /\ Len(items) < MaxItems
    /\ items' = Append(items,
                  [name |-> format_and_capitalize_name(form.name),
                   name_snakecase |-> convert_name_to_snakecase(form.name),
                   price |-> DecimalOfText(form.price),
                   unit |-> form.unit,
                   delivery_days |-> IF form.delivery_date = "today" THEN 0 ELSE 1,
                   deleted |-> FALSE,
                   photo_url |-> url])
    /\ UNCHANGED <<current_time, orders, Static, avars>>

\* ChangePhotoView.post, views.py 463-468
ChangePhotoViewPost(item_id, url) ==
    /\ item_id \in DOMAIN items
    /\ items' = [items EXCEPT ![item_id].photo_url = url]
    /\ UNCHANGED <<current_time, orders, Static, avars>>

\* The ids of the rows in tbl in the order of their delivery dates, rows of
\* one date by id
RECURSIVE OrderBy(_, _)
OrderBy(tbl, ids) ==
    IF ids = {} THEN <<>>
    ELSE LET first == CHOOSE i \in ids : \A j \in ids :
                         \/ tbl[i].delivery_date < tbl[j].delivery_date
                         \/ tbl[i].delivery_date = tbl[j].delivery_date /\ i <= j
         IN  <<first>> \o OrderBy(tbl, ids \ {first})

\* OrderListView.get with the objects saved after their attributes are set
OrderListViewGet_Saves ==
    LET today == current_time.date
        shown == { i \in DOMAIN orders :
                     ~orders[i].completed /\ orders[i].delivery_date >= today }
    IN  /\ order_list' = OrderBy(orders, shown)
        /\ orders' = [i \in DOMAIN orders |->
                        IF i \in shown
                        THEN [orders[i] EXCEPT !.items = JsonLoads(@)]
                        ELSE orders[i]]
        /\ UNCHANGED <<current_time, items, req, dvars, rvars, pvars,
                       gvars, avars, evars>>

\* OrderListView.get, views.py 307-321: the orders not completed and due
\* today or later, with the attributes set on the objects for the page
OrderListViewGet ==
    LET today == current_time.date
        shown == { i \in DOMAIN orders :
                     ~orders[i].completed /\ orders[i].delivery_date >= today }
        sorted == OrderBy(orders, shown)
    IN  /\ order_list' = [k \in 1..Len(sorted) |->
                            [orders[sorted[k]] EXCEPT
                                !.items = JsonLoads(@),
                                !.id = WithoutDash(orders[sorted[k]].id_str)] @@
                            ("delivery_today" :> (orders[sorted[k]].delivery_date = today))]
        /\ UNCHANGED <<current_time, items, orders, req, dvars, rvars, pvars,
                       gvars, avars, evars>>

NextFlow ==
    \/ \E s \in Sessions, form \in ConfirmForms, cand \in Candidates :
          OrderConfirmationViewPost(s, form, cand)
    \/ \E s \in Sessions : OrderSummaryViewGet(s)
    \/ Tick

SpecFlow == InitFlow /\ [][NextFlow]_vars

\* The confirmations of SpecSeller: the form without an e-mail address,
\* from the first customer, with randint drawing 1
QuietForms == { form \in ConfirmForms : form.email = "" }
FirstCustomer == {"s1"}
LowCandidates == { cand \in Candidates : cand < LastBeforeWrap }

NextSeller ==
    \/ \E s \in FirstCustomer, form \in QuietForms, cand \in LowCandidates :
          OrderConfirmationViewPost(s, form, cand)
    \/ \E form \in ItemForms : ItemListViewPost(form)
    \/ \E form \in ItemForms, url \in PhotoUrls : AddItemViewPost(form, url)
    \/ \E i \in ItemIds, url \in PhotoUrls : ChangePhotoViewPost(i, url)
    \/ \E i \in ItemIds : DeleteItemViewPost(i)
    \/ OrderListViewGet

SpecSeller == InitFlow /\ [][NextSeller]_vars

\* SpecShop: the first customer, whose session holds a priced order, posts
\* shop forms; both customers post confirmations
NextShop ==
    \/ \E s \in FirstCustomer, form \in ShopForms : ShopViewPost(s, form)
    \/ \E s \in Sessions, form \in QuietForms, cand \in LowCandidates :
          OrderConfirmationViewPost(s, form, cand)

SpecShop == InitFlow /\ [][NextShop]_vars

(***************************************************************************)
(* Claims on the delivery date                                             *)
(***************************************************************************)
Saturday == 5
Sunday == 6

\* The nine fixed holidays, as (day, month)
FixedHolidays ==
    { <<1, 1>>, <<6, 1>>, <<1, 5>>, <<3, 5>>, <<15, 8>>, <<1, 11>>,
      <<11, 11>>, <<25, 12>>, <<26, 12>> }

\* A date that the next-business-day rule excludes, for reference date ref:
\* a weekend day, a fixed holiday, or Easter Sunday, Easter Monday or
\* Easter Sunday + 60 days of the reference year.
Excluded(n, ref) ==
    LET easter == first_day_easter(YearOf(ref))
    IN  \/ Weekday(n) \in {Saturday, Sunday}
        \/ <<DayOf(n), MonthOf(n)>> \in FixedHolidays
        \/ n \in {easter, easter + 1, easter + 60}

\* The earliest date strictly after ref that is not excluded
EarliestWorkDay(ref) ==
    CHOOSE n \in (ref + 1) .. (ref + 14) :
        /\ ~Excluded(n, ref)
        /\ \A k \in (ref + 1) .. (n - 1) : Excluded(k, ref)

\* C1: a delivery date computed on a Saturday is never a Saturday or a
\* Sunday, whatever the time of day and the same-day flag.
C1_SaturdayNeverWeekend ==
    (dpc = "done" /\ Weekday(current_time.date) = Saturday)
        => Weekday(convert_str_date_to_datetime(order_delivery)) \notin {Saturday, Sunday}

\* C3: every finished search returned the earliest date strictly after the
\* reference date that is no weekend day, no fixed holiday and none of the
\* three Easter dates of the reference year; in 2024 the movable holidays
\* are 31 March, 1 April and 30 May; and the loop stops: its date only
\* moves forward (LoopBody), never passes that earliest date, and the loop
\* flag is set as soon as it is reached.
C3_NextWorkDay ==
    LET earliest == EarliestWorkDay(current_time.date)
    IN  /\ (dpc \in {"return", "done"} /\ NotToday(current_time, delivery_today))
                => date = earliest
        /\ dpc = "loop"
                => /\ current_time.date <= date /\ date <= earliest
                   /\ work_day <=> (date = earliest)
                   /\ LoopBody(date, holidays(YearOf(current_time.date))).date > date
        /\ YearOf(current_time.date) = 2024
                => holidays(2024) \ FixedHolidays = { <<31, 3>>, <<1, 4>>, <<30, 5>> }

\* Friday 29 March 2024: the search passes Saturday, Easter Sunday and
\* Easter Monday and ends on Tuesday 2 April.
C3_Witness ==
    /\ dpc = "done"
    /\ current_time.date = Ymd2Ord(2024, 3, 29)
    /\ NotToday(current_time, delivery_today)
    /\ order_delivery = <<2, 4, 2024>>

\* C2: set_delivery_date returns today's date exactly when the time is not
\* later than 15:30 and its flag says that every ordered line has
\* delivery_days = 0, and the result of the next-business-day rule in every
\* other case; at 15:29 with the flag set it is today, at 15:31 it is the
\* next business day.
C2_TodayIffEligible ==
    dpc = "done" =>
        LET today == current_time.date
            in_time == \/ current_time.hour < 15
                       \/ (current_time.hour = 15 /\ current_time.minute <= 30)
            next_day == EarliestWorkDay(today)
        IN  /\ (order_delivery = <<DayOf(today), MonthOf(today), YearOf(today)>>)
                    <=> (in_time /\ delivery_today)
            /\ ~(in_time /\ delivery_today)
                    => order_delivery = <<DayOf(next_day), MonthOf(next_day), YearOf(next_day)>>
            /\ (current_time.hour = 15 /\ current_time.minute = 29 /\ delivery_today)
                    => convert_str_date_to_datetime(order_delivery) = today
            /\ (current_time.hour = 15 /\ current_time.minute = 31)
                    => convert_str_date_to_datetime(order_delivery) = next_day

\* Thursday 2 May 2024 at 15:30 exactly, with the flag set: delivery today.
C2_Witness ==
    /\ dpc = "done"
    /\ current_time = [date |-> Ymd2Ord(2024, 5, 2), hour |-> 15, minute |-> 30]
    /\ delivery_today
    /\ order_delivery = <<2, 5, 2024>>

(***************************************************************************)
(* Claims on pricing                                                       *)
(***************************************************************************)
RECURSIVE SumOver(_, _)
SumOver(f, S) ==
    IF S = {} THEN 0
    ELSE LET x == CHOOSE y \in S : TRUE IN f[x] + SumOver(f, S \ {x})

\* The catalog row of product key k
ItemOf(k) == items[CHOOSE i \in DOMAIN items : items[i].name_snakecase = k]

\* Product key k is in the catalog
InCatalog(k) == \E i \in DOMAIN items : items[i].name_snakecase = k

\* The reference line total of product k in units of 0.00001: the quantity in
\* thousandths (whole pieces only for 'szt.') times the price in hundredths
RefLineTotal(k) ==
    LET q == order_raw.at[k].m * Pow10(3 - order_raw.at[k].e)
        pr == ItemOf(k).price.m * Pow10(2 - ItemOf(k).price.e)
    IN  IF ItemOf(k).unit = <<"s", "z", "t", ".">>
        THEN ((q \div 1000) * 1000) * pr
        ELSE q * pr

\* A number in units of 0.00001
InUnits(x) == x.m * Pow10(5 - x.e)

\* C4: for every catalog and every set of validated quantities of its
\* products the order is priced, the order total being the sum of the
\* unrounded line totals, floor(quantity) * price for a 'szt.' product and
\* quantity * price otherwise; mleko 2,5 l at 4.50 with chleb 1 szt. at 3.20
\* gives 14.45.
C4_PricingRule ==
    (price_out # <<>> /\ \A k \in DOMAIN order_raw.at : InCatalog(k)) =>
        /\ price_out.status = "ok"
        /\ InUnits(price_out.order_sum)
              = SumOver([k \in DOMAIN order_raw.at |-> RefLineTotal(k)],
                        DOMAIN order_raw.at)
        /\ ( /\ order_raw.keys = <<"mleko", "chleb">>
             /\ InUnits(order_raw.at["mleko"]) = 250000
             /\ InUnits(order_raw.at["chleb"]) = 100000
             /\ InUnits(ItemOf("mleko").price) = 450000
             /\ ItemOf("mleko").unit = <<"l">> )
           => convert_number_to_str(price_out.order_sum) = <<"1", "4", ",", "4", "5">>

\* The hundredths written in a string 'd...d,dd'
CentsOf(str) ==
    StrToInt(SelectSeq(str, LAMBDA c : c # ","))

\* The sum of the item_sum values of the snapshot, in hundredths
SnapshotSum(order_items) ==
    SumOver([n \in DOMAIN order_items |-> CentsOf(order_items[n].item_sum)],
            DOMAIN order_items)

\* The order total as it is shown and stored, in hundredths
TotalCents(order_sum) == CentsOf(convert_number_to_str(order_sum))

Abs(x) == IF x < 0 THEN -x ELSE x

\* C5: for any set of order lines the snapshot holds the line totals, each
\* rounded to two places, and their sum is within 0.01 of the order total
\* rounded once.
C5_WithinOneCent ==
    (price_out # <<>> /\ \A k \in DOMAIN order_raw.at : InCatalog(k)) =>
        /\ price_out.status = "ok"
        /\ DOMAIN price_out.order_items = { ItemOf(k).name : k \in DOMAIN order_raw.at }
        /\ Abs(SnapshotSum(price_out.order_items) - TotalCents(price_out.order_sum)) <= 1

\* Product key k names a product that is in the catalog and not soft-deleted
Orderable(k) ==
    \E i \in DOMAIN items : items[i].name_snakecase = k /\ ~items[i].deleted

\* C8: when the entry that pricing comes to first has a key that is absent
\* from the catalog or belongs to a soft-deleted product, pricing fails with
\* the not-found outcome and no line is priced.
C8_NotFoundForAbsentOrDeleted ==
    (price_out # <<>> /\ order_raw.keys # <<>> /\ ~Orderable(order_raw.keys[1])) =>
        /\ price_out.status = "DoesNotExist"
        /\ price_out.order_items = NoOrderItems

(***************************************************************************)
(* Claims on the validation of the submitted quantities                    *)
(***************************************************************************)
AllDigits(t) ==
    /\ Len(t) >= 1
    /\ \A i \in 1..Len(t) : t[i] \in {"0", "1", "2", "3", "4", "5", "6", "7", "8", "9"}

\* One or more digits, optionally followed by one comma and one or more digits
QuantityPattern(t) ==
    \/ AllDigits(t)
    \/ \E i \in 1..Len(t) :
          /\ t[i] = ","
          /\ AllDigits(SubSeq(t, 1, i - 1))
          /\ AllDigits(SubSeq(t, i + 1, Len(t)))

\* The value without the white space around it
Trimmed(v) ==
    IF \A i \in 1..Len(v) : v[i] = " " THEN <<>>
    ELSE LET first == CHOOSE i \in 1..Len(v) :
                        v[i] # " " /\ \A j \in 1..(i - 1) : v[j] = " "
             last == CHOOSE i \in 1..Len(v) :
                        v[i] # " " /\ \A j \in (i + 1)..Len(v) : v[j] = " "
         IN  SubSeq(v, first, last)

InErrors(key) == \E j \in 1..Len(raw_out.errors) : raw_out.errors[j] = key

C9_PositiveQuantities ==
    raw_out # <<>> =>
        \A k \in DOMAIN raw_out.order_data.at : raw_out.order_data.at[k].m > 0

(***************************************************************************)
(* Claims on the shop submission                                           *)
(***************************************************************************)
\* Some submitted quantity fails validation
HasInvalidQuantity(form) ==
    \E i \in 1..Len(form) :
        /\ form[i][1] \notin {"csrfmiddlewaretoken", "csrftoken", "sessionid"}
        /\ form[i][2] # <<>>
        /\ ~QuantityPattern(Trimmed(form[i][2]))

\* C7: a shop submission with a quantity that fails validation writes
\* nothing to the session, persists no order, sends no email, and is
\* answered by a redirect to the shop page with the submitted form in the
\* 'order' cookie.
C7_InvalidQuantityAborts ==
    [][ \A s \in Sessions :
          ( /\ response'[s] # response[s]
            /\ response'[s].view = "ShopView.post"
            /\ HasInvalidQuantity(data') )
          => /\ session' = session
             /\ orders' = orders
             /\ mails' = mails
             /\ response'[s].kind = "redirect"
             /\ response'[s].to = "shop_view"
             /\ "order" \in DOMAIN cookies'[s]
             /\ cookies'[s]["order"] = JsonDumps(data') ]_vars

(***************************************************************************)
(* Claims on the order id                                                  *)
(***************************************************************************)
\* The first id not in store S met from c on, going from an id to the next
\* one and from 999999, or beyond, back to 1
RECURSIVE FirstUnused(_, _)
FirstUnused(S, c) ==
    IF c \notin S THEN c
    ELSE FirstUnused(S, IF c >= 999999 THEN 1 ELSE c + 1)

\* C10: generate_id ends, after at most one pass per stored order and one
\* more, with an id that is not in the store: the first unused id met from
\* the drawn candidate by adding 1, with 999999 followed by 1; store
\* {1, 2, 3} and candidate 1 give 4.
C10_FirstUnusedId ==
    /\ probes <= Cardinality(DOMAIN orders) + 1
    /\ gpc = "done" =>
          /\ id_out[1] \notin DOMAIN orders
          /\ id_out[1] = FirstUnused(DOMAIN orders, candidate)
          /\ (DOMAIN orders = {1, 2, 3} /\ candidate = 1) => id_out[1] = 4

\* Store {1, 2, 999998, 999999}, candidate 999998: the search passes 999999,
\* goes back to 1 and ends on 3.
C10_Witness ==
    /\ gpc = "done"
    /\ DOMAIN orders = {1, 2, 999998, 999999}
    /\ candidate = 999998
    /\ id_out[1] = 3
    /\ probes = 5

\* Order.id_str: CharField(max_length=7)
IdStrMaxLength == 7


\* C11: every id that generate_id returns lies in 1..999999, and its display
\* form has 7 characters, six digits with one separator after the third,
\* which read without the separator give back the id.
C11_IdRangeAndDisplayForm ==
    gpc = "done" =>
       /\ id_out[1] \in 1..999999
       /\ Len(id_out[2]) = IdStrMaxLength
       /\ id_out[2][4] = "-"
       /\ Len(WithoutDash(id_out[2])) = 6
       /\ AllDigits(WithoutDash(id_out[2]))
       /\ StrToInt(WithoutDash(id_out[2])) = id_out[1]

(***************************************************************************)
(* Claims on order creation                                                *)
(***************************************************************************)
\* Request s leaves the insert in this step
Inserts(s) == req[s].pc = "create" /\ req'[s].pc # "create"

\* Request s ends with the e-mails and the response in this step
Ends(s) == req[s].pc = "send" /\ req'[s].pc = "none"

IntegrityErrorResponse ==
    Respond("OrderConfirmationView.post", "error", "IntegrityError")

SummaryRedirect ==
    Respond("OrderConfirmationView.post", "redirect", "order_summary")

\* C12: under every interleaving of the confirmations, an insert leaves
\* every order that is already in the table as it was, the table holds one
\* order per id, and an insert either adds the row of its request under an
\* id that was not in the table or adds nothing.
C12_NoDuplicateNoOverwrite ==
    [][ \A s \in Sessions : Inserts(s) =>
          /\ \A i \in DOMAIN orders :
                OrderExists(orders', i) /\ orders'[i] = orders[i]
          /\ \A i \in DOMAIN orders' : orders'[i].id = i
          /\ req'[s].pc = "send" =>
                /\ ~OrderExists(orders, req[s].ids[1])
                /\ DOMAIN orders' = DOMAIN orders \cup {req[s].ids[1]}
                /\ orders'[req[s].ids[1]] = req'[s].new_order
          /\ req'[s].pc = "none" => orders' = orders ]_vars

\* Both customers were given id 1 by generate_id; the first insert stands,
\* with the row of its request, and the second one was refused.
C12_Witness ==
    /\ req["s1"].pc = "send"
    /\ req["s1"].ids[1] = 1
    /\ response["s2"] = IntegrityErrorResponse
    /\ DOMAIN orders = {1}
    /\ orders[1] = req["s1"].new_order
    /\ orders[1].items = session["s1"]["order_items"]

C14_MailFailureLeavesOrder ==
    [][ /\ \A s \in Sessions : Ends(s) =>
              LET form == req[s].form
                  sent == SubSeq(mails', Len(mails) + 1, Len(mails'))
              IN  /\ OrderExists(orders, req[s].ids[1])
                  /\ orders' = orders
                  /\ orders[req[s].ids[1]].id_str = req[s].ids[2]
                  /\ Len(sent) = IF form.email # "" THEN 2 ELSE 1
                  /\ sent[1].to = SellerAddress
                  /\ form.email # "" => sent[2].to = form.email
                  /\ \A k \in 1..Len(sent) : sent[k].id_str = req[s].ids[2]
                  /\ response'[s] = SummaryRedirect
                  /\ session'[s]["id"] = req[s].ids[2]
        /\ mails' # mails => \E s \in Sessions : Ends(s) ]_vars

\* Both e-mails of a confirmation failed; the order is in the table and
\* the customer was redirected to the summary with its display id.
C14_Witness ==
    /\ Len(mails) = 2
    /\ ~mails[1].sent /\ ~mails[2].sent
    /\ mails[1].to = SellerAddress
    /\ mails[2].to = "k@x.pl"
    /\ response["s1"] = SummaryRedirect
    /\ session["s1"]["id"] = mails[1].id_str
    /\ \E i \in DOMAIN orders : orders[i].id_str = mails[1].id_str

(***************************************************************************)
(* Claims on the stored orders and the session                             *)
(***************************************************************************)
\* The fields of an order that are fixed when it is created
Snapshot(row) ==
    [items |-> row.items, sum |-> row.sum, id |-> row.id, id_str |-> row.id_str,
     city |-> row.city, phone_number |-> row.phone_number,
     email_address |-> row.email_address, delivery_date |-> row.delivery_date]

\* C15: no step of the application changes the items snapshot, the total,
\* the id, the display id, the address, the contact fields or the delivery
\* date of an order that is in the table: not a catalog edit, a soft
\* delete, a photo change, a product addition, a new order or a reading of
\* the order list.
C15_OrdersNeverChange ==
    [][ \A i \in DOMAIN orders :
          /\ OrderExists(orders', i)
          /\ Snapshot(orders'[i]) = Snapshot(orders[i]) ]_vars

\* Order 1 holds the line of Mleko at 4,50 per l; since then the product
\* was renamed, repriced and sold by the piece, the second product was
\* deleted, a product was added, a second order was made and the seller
\* read the order list.
C15_Witness ==
    /\ DOMAIN orders = {1, 2}
    /\ DOMAIN JsonLoads(orders[1].items) = {"Mleko"}
    /\ JsonLoads(orders[1].items)["Mleko"].price = <<"4", ",", "5", "0">>
    /\ JsonLoads(orders[1].items)["Mleko"].unit = Str_l
    /\ items[1].name = "Mleko Kozie"
    /\ items[1].name_snakecase = "mleko_kozie"
    /\ items[1].price = Dec(5, 0)
    /\ items[1].unit = PieceUnit
    /\ items[1].photo_url = "p"
    /\ items[2].deleted
    /\ Len(items) = 3
    /\ Len(order_list) = 2

TransientKeys ==
    {"order_items", "order_sum", "order_delivery", "user_data",
     "payment_method", "id"}

SummaryRendered == Respond("OrderSummaryView.get", "render", "order_summary")

\* C17: the step in which the summary is rendered leaves none of the
\* transient keys in the session; while a session holds none of them its
\* requests end in KeyError and leave it as it is, and while no session
\* holds order_items no order is stored and no e-mail is sent.
C17_SummaryClearsSession ==
    [][ /\ \A s \in Sessions :
              /\ (SummaryKeys \subseteq DOMAIN session[s]
                     /\ response'[s] = SummaryRendered)
                    => DOMAIN session'[s] \cap TransientKeys = {}
              /\ DOMAIN session[s] \cap TransientKeys = {} =>
                    /\ session'[s] = session[s]
                    /\ response'[s] # response[s] =>
                          /\ response'[s].kind = "error"
                          /\ response'[s].to = "KeyError"
        /\ (\A s \in Sessions : "order_items" \notin DOMAIN session[s])
              => orders' = orders /\ mails' = mails ]_vars

\* The first customer confirmed and read the summary; the confirmation
\* posted after that ended in KeyError and the table holds the one order.
C17_Witness ==
    /\ DOMAIN session["s1"] = {}
    /\ response["s1"] = Respond("OrderConfirmationView.post", "error", "KeyError")
    /\ Cardinality(DOMAIN orders) = 1
    /\ Len(mails) >= 1

\* now is later in its day than the order limit
AfterLimit(now) ==
    now.hour * 60 + now.minute > max_order_hour * 60 + max_order_minute

ReferenceEaster(Y) ==
    LET a == Y % 19
        b == Y \div 100
        c == Y % 100
        d == b \div 4
        e == b % 4
        f == (b + 8) \div 25
        g == (b - f + 1) \div 3
        h == (19 * a + b - d - g + 15) % 30
        i == c \div 4
        k == c % 4
        l == (32 + 2 * e + 2 * i - h - k) % 7
        m == (a + 11 * h + 22 * l) \div 451
        n == h + l - 7 * m + 114
    IN  Ymd2Ord(Y, n \div 31, (n % 31) + 1)

GaussExceptions == {2049, 2076}

\* C18: for every year from 2000 to 2099 the date that first_day_easter
\* gives is a Sunday; it is the Easter Sunday of the reference computus in
\* every year but 2049 and 2076, and differs from it in these two.
C18_EasterMatchesReference ==
    easter_date # 0 =>
       /\ Weekday(easter_date) = Sunday
       /\ easter_year \notin GaussExceptions
             => easter_date = ReferenceEaster(easter_year)
       /\ easter_year \in GaussExceptions
             => easter_date # ReferenceEaster(easter_year)

\* 2049: the function gives 25 April, the reference 18 April.
C18_Witness ==
    /\ easter_year = 2049
    /\ easter_date = Ymd2Ord(2049, 4, 25)
    /\ ReferenceEaster(2049) = Ymd2Ord(2049, 4, 18)
    /\ ReferenceEaster(2024) = Ymd2Ord(2024, 3, 31)
    /\ ReferenceEaster(2076) = Ymd2Ord(2076, 4, 19)

(***************************************************************************)
(* Claims on the displayed quantity                                        *)
(***************************************************************************)
\* floor(x) of a number x >= 0, as an integer
FloorOf(x) == x.m \div Pow10(x.e)

\* C20: when every ordered product is in the catalog the order is priced,
\* and the line of each product sold by the piece shows as its quantity the
\* whole number of pieces, floor(quantity): 3,7 and 3,999 are both shown
\* as 3.
C20_PieceQuantityIsFloor ==
    (price_out # <<>> /\ \A k \in DOMAIN order_raw.at : InCatalog(k)) =>
        \A k \in DOMAIN order_raw.at :
           ItemOf(k).unit = PieceUnit =>
              /\ price_out.status = "ok"
              /\ ItemOf(k).name \in DOMAIN price_out.order_items
              /\ price_out.order_items[ItemOf(k).name].quantity
                    = IntToStr(FloorOf(order_raw.at[k]))

(***************************************************************************)
(* Claims on the product keys                                              *)
(***************************************************************************)
\* C21: after any sequence of additions, edits and soft deletes by the
\* seller, the lookup by key that pricing makes (utils.py 119) finds
\* exactly one row for every key on the shop page, also for a product
\* added under the name of a soft-deleted one.
C21_ListedKeysResolve ==
    \A k \in ListedKeys(items) : GetItem(items, k).status = "ok"

PricedKeys == {"order_items", "order_sum", "order_delivery"}

\* The part of a session that pricing wrote
PricedPart(sess) == [k \in DOMAIN sess \cap PricedKeys |-> sess[k]]

====
